---- MODULE Spec2Model ----
(***************************************************************************)
(* A model of excel-reader/scripts/excel.py: the sheets, headers, rows and *)
(* column commands of the workbook reader, with the helpers they call      *)
(* (format_cell, resolve_sheet, open_workbook, parse_range,                *)
(* read_header_row).                                                       *)
(*                                                                         *)
(* Text is a sequence of one-character strings, so that str.lower(), int() *)
(* and str.split() are computed and not assumed.  Python's None is None    *)
(* for text and NoneI for an optional integer.                             *)
(*                                                                         *)
(* The workbook source (openpyxl) is outside the repository.  A sheet is a *)
(* sequence of rows; iter_rows(min_row, max_row) yields the rows numbered  *)
(* min_row .. max_row that exist, in order, for min_row >= 1.  Every row   *)
(* has at least one cell.  The --json flag only selects the renderer and   *)
(* is not modelled: `out` holds the structured result both renderers read. *)
(***************************************************************************)
EXTENDS Integers, Sequences, FiniteSets, TLC

\* ------------------------------------------------------------------ bounds
\* Rows of the largest sheet.
MaxRows == 4
\* Largest --header-row.
MaxHeaderRow == 2
\* Largest --offset (the smallest is -1).
MaxOffset == 1
\* Largest --limit (the smallest is 0).
MaxLimit == 2
\* Longest range token of SpecRange.
MaxTokenLen == 5
\* Longest header list of SpecColumn.
MaxHeaders == 3
\* Most sheets of a workbook of SpecSheet.
MaxSheets == 3
\* Longest column token of SpecColumn.
MaxColTokenLen == 2

\* -------------------------------------------------------------------- text
None == <<"None">>
NoneI == [none |-> TRUE, v |-> 0]
Some(n) == [none |-> FALSE, v |-> n]

Min(a, b) == IF a <= b THEN a ELSE b
Max(a, b) == IF a >= b THEN a ELSE b

Digits == <<"0", "1", "2", "3", "4", "5", "6", "7", "8", "9">>
IsDigit(c) == \E i \in DOMAIN Digits : Digits[i] = c
DigitVal(c) == (CHOOSE i \in DOMAIN Digits : Digits[i] = c) - 1

\* str.lower() on one character, over the letters the model uses.
LowerChar(c) ==
    CASE c = "A" -> "a"
      [] c = "B" -> "b"
      [] c = "S" -> "s"
      [] c = "T" -> "t"
      [] OTHER -> c

\* str.lower()
Lower(s) == [i \in DOMAIN s |-> LowerChar(s[i])]

RECURSIVE DigitsVal(_)
DigitsVal(s) ==
    IF s = <<>> THEN 0
    ELSE 10 * DigitsVal(SubSeq(s, 1, Len(s) - 1)) + DigitVal(s[Len(s)])

AllDigits(s) == s # <<>> /\ \A i \in DOMAIN s : IsDigit(s[i])

\* int(s): an optional sign and one or more digits; anything else raises
\* ValueError (ok = FALSE).  Surrounding blanks and "_" are not in the
\* model's alphabet.
PyInt(s) ==
    IF s # <<>> /\ s[1] \in {"+", "-"}
    THEN LET d == Tail(s) IN
         IF AllDigits(d)
         THEN [ok |-> TRUE, val |-> IF s[1] = "-" THEN 0 - DigitsVal(d) ELSE DigitsVal(d)]
         ELSE [ok |-> FALSE, val |-> 0]
    ELSE IF AllDigits(s)
         THEN [ok |-> TRUE, val |-> DigitsVal(s)]
         ELSE [ok |-> FALSE, val |-> 0]

\* str(n) of an integer.
RECURSIVE NatToStr(_)
NatToStr(n) ==
    IF n < 10 THEN <<Digits[n + 1]>>
    ELSE NatToStr(n \div 10) \o <<Digits[(n % 10) + 1]>>

IntToStr(n) == IF n < 0 THEN <<"-">> \o NatToStr(0 - n) ELSE NatToStr(n)

\* ------------------------------------------------------------- cell values
NoneCell == [t |-> "none"]
BoolCell(b) == [t |-> "bool", b |-> b]
IntCell(n) == [t |-> "int", n |-> n]
\* The float whole + tenth/10, whole >= 0.
FloatCell(w, d) == [t |-> "float", whole |-> w, tenth |-> d]
DateCell(iso) == [t |-> "date", iso |-> iso]
StrCell(s) == [t |-> "str", s |-> s]

format_cell(value) ==
    CASE value.t = "none" -> <<>>
      [] value.t = "date" -> value.iso
      [] value.t = "bool" -> IF value.b THEN <<"T", "r", "u", "e">>
                             ELSE <<"F", "a", "l", "s", "e">>
      [] value.t = "float" -> IF value.tenth = 0 THEN IntToStr(value.whole)
                              ELSE IntToStr(value.whole) \o <<".">> \o IntToStr(value.tenth)
      [] value.t = "int" -> IntToStr(value.n)
      [] OTHER -> value.s

FormatRow(row) == [i \in DOMAIN row |-> format_cell(row[i])]

\* die(msg): the message on stderr and exit status 1.  kind is the error of
\* the design, text the message's wording, names the names it lists.
Die(kind, text, names) == [kind |-> kind, text |-> text, names |-> names]
NoError == Die("", "", <<>>)

\* ------------------------------------------------------------ resolve_sheet
\* Position of the first element of seq equal to x (list.index), 1-based.
FirstIndex(seq, x) ==
    CHOOSE i \in DOMAIN seq : seq[i] = x /\ \A j \in 1..(i - 1) : seq[j] # x

LastIndex(seq, x) ==
    CHOOSE i \in DOMAIN seq : seq[i] = x /\ \A j \in (i + 1)..Len(seq) : seq[j] # x

LowerAll(names) == [i \in DOMAIN names |-> Lower(names[i])]

\* resolve_sheet returning the last match instead of the first.
SheetMatchLast(sheetnames, lower) ==
    IF \E i \in DOMAIN sheetnames : Lower(sheetnames[i]) = lower
    THEN LastIndex(LowerAll(sheetnames), lower)
    ELSE 0

\* The loop of resolve_sheet: the first sheet name, in workbook order, whose
\* lower() equals lower; 0 when the loop ends without returning.
SheetMatch(sheetnames, lower) ==
    IF \E i \in DOMAIN sheetnames : Lower(sheetnames[i]) = lower
    THEN FirstIndex(LowerAll(sheetnames), lower)
    ELSE 0

\* The names die() prints: ", ".join(wb.sheetnames).
AvailableSheets(sheetnames) == sheetnames

resolve_sheet(sheetnames, name) ==
    IF name = None
    THEN [err |-> NoError, idx |-> 1, title |-> sheetnames[1]]
    ELSE LET i == SheetMatch(sheetnames, Lower(name)) IN
         IF i # 0
         THEN [err |-> NoError, idx |-> i, title |-> sheetnames[i]]
         ELSE [err |-> Die("SheetNotFound", "not found", AvailableSheets(sheetnames)),
               idx |-> 0, title |-> <<>>]

\* -------------------------------------------------------------- parse_range
Contains(s, c) == \E i \in DOMAIN s : s[i] = c

\* range_str.split("-", 1): the text before and after the first "-".
SplitFirst(s, c) ==
    LET k == FirstIndex(s, c) IN
    <<SubSeq(s, 1, k - 1), SubSeq(s, k + 1, Len(s))>>

\* Line 78 without its `start < 1`.
RangeBoundsBadNoFloor(start, end) == end < start

\* The test of line 78.
RangeBoundsBad(start, end) == start < 1 \/ end < start

\* The test of line 83.
RowNumberBad(n) == n < 1

RangeFail(text) ==
    [err |-> Die("InvalidRange", text, <<>>), start |-> NoneI, end |-> NoneI]

parse_range(range_str) ==
    IF range_str = None
    THEN [err |-> NoError, start |-> NoneI, end |-> NoneI]
    ELSE IF Contains(range_str, "-")
    THEN LET parts == SplitFirst(range_str, "-")
             s == PyInt(parts[1])
             e == PyInt(parts[2])
         IN  IF ~s.ok \/ ~e.ok
             THEN RangeFail("Use N or N-M")
             ELSE IF RangeBoundsBad(s.val, e.val)
             THEN RangeFail("Start must be >= 1 and end >= start")
             ELSE [err |-> NoError, start |-> Some(s.val), end |-> Some(e.val)]
    ELSE LET n == PyInt(range_str) IN
         IF ~n.ok
         THEN RangeFail("Use N or N-M")
         ELSE IF RowNumberBad(n.val)
         THEN RangeFail("Row number must be >= 1")
         ELSE [err |-> NoError, start |-> Some(n.val), end |-> Some(n.val)]

\* ----------------------------------------------------------- the row stream
\* ws.iter_rows(min_row, max_row, values_only=True): the numbers of the rows
\* it yields, in order.  max_row = NoneI reads to the end of the sheet.
IterRows(rows, min_row, max_row) ==
    LET last == IF max_row.none THEN Len(rows) ELSE Min(max_row.v, Len(rows))
    IN  [i \in 1..Max(0, last - min_row + 1) |-> min_row + i - 1]

read_header_row(rows, header_row) ==
    LET it == IterRows(rows, header_row, Some(header_row)) IN
    IF it # <<>> THEN FormatRow(rows[it[1]]) ELSE <<>>

\* ------------------------------------------------- column resolution (242-261)
\* The test of line 255.
IndexInRange(idx, n) == 0 <= idx /\ idx < n

\* Numeric-first resolution: a token that parses as an integer never takes
\* the name branch.
NameMatchesUnlessNumeric(headers, col_name) ==
    /\ ~PyInt(col_name).ok
    /\ \E i \in DOMAIN headers : Lower(headers[i]) = Lower(col_name)

\* Whether line 248 takes the name branch.
NameMatches(headers, col_name) ==
    \E i \in DOMAIN headers : Lower(headers[i]) = Lower(col_name)

\* col_idx is 0-based, as in the code.
ResolveColumn(headers, col_name) ==
    IF NameMatches(headers, col_name)
    THEN LET i == FirstIndex(LowerAll(headers), Lower(col_name)) IN
         [err |-> NoError, col_idx |-> i - 1, col_name |-> headers[i]]
    ELSE LET idx == PyInt(col_name) IN
         IF ~idx.ok
         THEN [err |-> Die("ColumnNotFound", "not found", headers),
               col_idx |-> -1, col_name |-> col_name]
         ELSE IF IndexInRange(idx.val, Len(headers))
         THEN [err |-> NoError, col_idx |-> idx.val, col_name |-> headers[idx.val + 1]]
         ELSE [err |-> Die("ColumnNotFound", "index out of range", headers),
               col_idx |-> -1, col_name |-> col_name]

\* ------------------------------------------------------------------- state
VARIABLES
    pc,          \* where the invocation is
    args,        \* the argparse namespace
    wb,          \* the workbook handle: state none/open/closed, sheetnames
    ws,          \* the resolved sheet: title and rows
    headers,     \* read_header_row's result
    plan,        \* range_start, range_end, start_row, limit (rows); col_idx, col_name (column)
    collected,   \* the loop's list; src is the sheet row an entry was read from
    count,       \* the loop's counter
    it,          \* the iter_rows cursor: the number of the row it yields next
    exitStatus,  \* -1 while running, then the process's exit status
    err,         \* what die() wrote to stderr
    out,         \* the result handed to the renderer
    input,       \* the argument of a helper applied on its own
    output       \* that helper's result

vars == <<pc, args, wb, ws, headers, plan, collected, count, it, exitStatus, err, out,
          input, output>>

\* ------------------------------------------------------------------ inputs
Commands == {"sheets", "headers", "rows", "column"}
SheetArgs == {None, <<"s">>}
SheetNameLists == {<< <<"T">> >>, << <<"T">>, <<"S">>, <<"s">> >>}
FileKinds == {"ok", "missing", "xls", "corrupt"}

RowA == <<FloatCell(1, 0), StrCell(<<"A">>), NoneCell>>
RowB == <<StrCell(<<"a">>)>>
RowChoices == {RowA, RowB}

\* Sheets of 0..MaxRows rows in which neighbouring rows differ in width.
SheetContents ==
    UNION {{r \in [1..n -> RowChoices] : \A i \in 1..(n - 1) : r[i] # r[i + 1]} : n \in 0..MaxRows}

RowNumbers == 1..(MaxRows + 1)
RangeArgs ==
    {None, <<"0">>, <<"2", "-", "1">>, <<"a">>}
    \cup {IntToStr(n) : n \in RowNumbers}
    \cup {IntToStr(s) \o <<"-">> \o IntToStr(e) : s \in RowNumbers, e \in RowNumbers}
ColumnArgs == {<<"a">>, <<"0">>, <<"1">>, <<"2">>, <<"x">>}
Limits == 0..MaxLimit
\* --offset takes any integer; with header_row >= 1 an offset of -1 is the
\* negative one that keeps iter_rows' min_row >= 1.
Offsets == (-1)..MaxOffset
HeaderRows == 1..MaxHeaderRow

NoArgs ==
    [command |-> "", sheet |-> None, rows |-> 0, range |-> None, limit |-> 0,
     offset |-> 0, header_row |-> 0, column |-> None]

ArgSets ==
    {[NoArgs EXCEPT !.command = "sheets"]}
    \cup {[NoArgs EXCEPT !.command = "headers", !.sheet = s, !.rows = n] :
            s \in SheetArgs, n \in HeaderRows}
    \cup {[NoArgs EXCEPT !.command = "rows", !.sheet = s, !.range = r, !.limit = l,
                         !.offset = o, !.header_row = h] :
            s \in SheetArgs, r \in RangeArgs, l \in Limits, o \in Offsets, h \in HeaderRows}
    \cup {[NoArgs EXCEPT !.command = "column", !.sheet = s, !.column = c, !.limit = l,
                         !.offset = o, !.header_row = h] :
            s \in SheetArgs, c \in ColumnArgs, l \in Limits, o \in Offsets, h \in HeaderRows}

NoWorkbook == [state |-> "none", sheetnames |-> <<>>]
NoSheet == [ok |-> FALSE, title |-> <<>>, rows |-> <<>>]
NoPlan ==
    [range_start |-> NoneI, range_end |-> NoneI, start_row |-> 0, limit |-> 0,
     col_idx |-> -1, col_name |-> None]
NoOutput == [kind |-> "none"]

Idle ==
    /\ args = NoArgs
    /\ wb = NoWorkbook
    /\ ws = NoSheet
    /\ headers = <<>>
    /\ plan = NoPlan
    /\ collected = <<>>
    /\ count = 0
    /\ it = 0
    /\ exitStatus = -1
    /\ err = NoError
    /\ out = NoOutput

Init ==
    /\ pc = "start"
    /\ Idle
    /\ input = <<>>
    /\ output = <<>>

\* sys.exit(status) after die(e) (status 1) or a return from main (status 0).
Exit(status, e) ==
    /\ pc' = "exited"
    /\ exitStatus' = status
    /\ err' = e

\* wb.close()
Closed(w) == [w EXCEPT !.state = "closed"]

\* ----------------------------------------------------------------- actions
\* build_parser().parse_args() and the dispatch of main().
ParseArgs ==
    /\ pc = "start"
    /\ \E a \in ArgSets : args' = a
    /\ pc' = "open"
    /\ UNCHANGED <<wb, ws, headers, plan, collected, count, it, exitStatus, err, out,
                   input, output>>

\* open_workbook(args.file), the first statement of every command.
open_workbook ==
    /\ pc = "open"
    /\ \E f \in FileKinds :
         IF f = "ok"
         THEN /\ \E names \in SheetNameLists : wb' = [state |-> "open", sheetnames |-> names]
              /\ pc' = IF args.command = "sheets" THEN "sheets" ELSE "resolve"
              /\ UNCHANGED <<exitStatus, err>>
         ELSE /\ Exit(1, CASE f = "missing" -> Die("FileNotFound", "File not found", <<>>)
                           [] f = "xls" -> Die("UnsupportedFormat", "Legacy .xls", <<>>)
                           [] OTHER -> Die("CorruptFile", "Cannot open file", <<>>))
              /\ UNCHANGED wb
    /\ UNCHANGED <<args, ws, headers, plan, collected, count, it, out, input, output>>

\* ws.max_row / ws.max_column as the source reports them: absent, 0 or a size.
DimChoices == {<<NoneI, NoneI>>, <<Some(0), Some(0)>>, <<Some(MaxRows), Some(3)>>}

\* `x if x else "unknown"`: NoneI stands for "unknown".
OrUnknown(d) == IF d.none \/ d.v = 0 THEN NoneI ELSE d

cmd_sheets ==
    /\ pc = "sheets"
    /\ \E dims \in [DOMAIN wb.sheetnames -> DimChoices] :
         out' = [kind |-> "sheets",
                 sheets |-> [i \in DOMAIN wb.sheetnames |->
                               [index |-> FirstIndex(wb.sheetnames, wb.sheetnames[i]) - 1,
                                name |-> wb.sheetnames[i],
                                rows |-> OrUnknown(dims[i][1]),
                                columns |-> OrUnknown(dims[i][2])]]]
    /\ wb' = Closed(wb)
    /\ Exit(0, NoError)
    /\ UNCHANGED <<args, ws, headers, plan, collected, count, it, input, output>>

\* ws = resolve_sheet(wb, args.sheet) of cmd_headers, cmd_rows and cmd_column.
\* The sheet's rows are those of the file, read from here on.
ResolveSheet ==
    /\ pc = "resolve"
    /\ LET r == resolve_sheet(wb.sheetnames, args.sheet) IN
       IF r.err # NoError
       THEN /\ Exit(1, r.err)
            /\ UNCHANGED ws
       ELSE /\ \E rows \in SheetContents : ws' = [ok |-> TRUE, title |-> r.title, rows |-> rows]
            /\ pc' = IF args.command = "headers" THEN "headers" ELSE "read_header"
            /\ UNCHANGED <<exitStatus, err>>
    /\ UNCHANGED <<args, wb, headers, plan, collected, count, it, out, input, output>>

\* The loop of cmd_headers: (i, formatted row) for the rows 1..num_rows.
HeaderRowsCollected(rows, num_rows) ==
    LET r == IterRows(rows, 1, Some(num_rows)) IN
    [i \in DOMAIN r |-> [row |-> i, vals |-> FormatRow(rows[r[i]]), src |-> r[i]]]

\* cmd_headers after resolve_sheet.
cmd_headers ==
    /\ pc = "headers"
    /\ collected' = HeaderRowsCollected(ws.rows, args.rows)
    /\ wb' = Closed(wb)
    /\ IF collected' = <<>>
       THEN /\ Exit(1, Die("EmptySheet", "is empty", <<ws.title>>))
            /\ UNCHANGED out
       ELSE /\ out' = [kind |-> "headers", sheet |-> ws.title, rows |-> collected']
            /\ Exit(0, NoError)
    /\ UNCHANGED <<args, ws, headers, plan, count, it, input, output>>

\* "Read headers" of cmd_rows and cmd_column.
ReadHeaders ==
    /\ pc = "read_header"
    /\ headers' = read_header_row(ws.rows, args.header_row)
    /\ IF headers' = <<>>
       THEN /\ wb' = Closed(wb)
            /\ Exit(1, Die("EmptySheet", "is empty", <<ws.title>>))
       ELSE /\ pc' = IF args.command = "rows" THEN "range" ELSE "column"
            /\ UNCHANGED <<wb, exitStatus, err>>
    /\ UNCHANGED <<args, ws, plan, collected, count, it, out, input, output>>

\* Line 185 without its `+ 1`.
RowsStartAtHeader(range_start, header_row, offset) ==
    IF ~range_start.none THEN range_start.v ELSE header_row + offset

\* start_row before the clamp (lines 181-186).
RowsStart(range_start, header_row, offset) ==
    IF ~range_start.none THEN range_start.v ELSE header_row + 1 + offset

\* Lines 181-186 with --limit applied to a range too.
RowsLimitAlways(range_start, range_end, limit) == limit

\* limit (lines 181-186); `if range_end` is false for None and for 0.
RowsLimit(range_start, range_end, limit) ==
    IF ~range_start.none
    THEN IF ~range_end.none /\ range_end.v # 0
         THEN range_end.v - range_start.v + 1
         ELSE limit
    ELSE limit

\* cmd_rows without lines 189-190.
NoClamp(start_row, header_row) == start_row

\* "Ensure we start after the header" (lines 189-190).
ClampStart(start_row, header_row) ==
    IF start_row <= header_row THEN header_row + 1 ELSE start_row

\* "Determine row range" of cmd_rows, up to the creation of the iterator.
DetermineRange ==
    /\ pc = "range"
    /\ LET r == parse_range(args.range) IN
       IF r.err # NoError
       THEN /\ Exit(1, r.err)
            /\ UNCHANGED <<plan, it>>
       ELSE LET start_row == ClampStart(RowsStart(r.start, args.header_row, args.offset),
                                        args.header_row)
            IN  /\ plan' = [plan EXCEPT !.range_start = r.start, !.range_end = r.end,
                                        !.start_row = start_row,
                                        !.limit = RowsLimit(r.start, r.end, args.limit)]
                /\ it' = start_row
                /\ pc' = "scan_rows"
                /\ UNCHANGED <<exitStatus, err>>
    /\ UNCHANGED <<args, wb, ws, headers, collected, count, out, input, output>>

\* start_row of cmd_column (line 264).
ColumnStart(header_row, offset) == header_row + 1 + offset

\* "Resolve column" of cmd_column, up to the creation of the iterator.
ResolveColumnStep ==
    /\ pc = "column"
    /\ LET r == ResolveColumn(headers, args.column) IN
       IF r.err # NoError
       THEN /\ Exit(1, r.err)
            /\ UNCHANGED <<plan, it>>
       ELSE /\ plan' = [plan EXCEPT !.col_idx = r.col_idx, !.col_name = r.col_name,
                                    !.start_row = ColumnStart(args.header_row, args.offset),
                                    !.limit = args.limit]
            /\ it' = ColumnStart(args.header_row, args.offset)
            /\ pc' = "scan_column"
            /\ UNCHANGED <<exitStatus, err>>
    /\ UNCHANGED <<args, wb, ws, headers, collected, count, out, input, output>>

\* The test of line 195.
PastRangeEnd(range_end, row_number) == ~range_end.none /\ row_number > range_end.v

\* The test of lines 199 and 271.
LimitReached(n, limit) == n >= limit

\* One pass of the loop of cmd_rows (lines 194-200); the loop ends when the
\* iterator is exhausted or on a break.
ScanRows ==
    /\ pc = "scan_rows"
    /\ IF it > Len(ws.rows) \/ PastRangeEnd(plan.range_end, plan.start_row + count)
       THEN /\ pc' = "finish"
            /\ UNCHANGED <<collected, count, it>>
       ELSE /\ collected' = Append(collected, [row |-> plan.start_row + count,
                                               vals |-> FormatRow(ws.rows[it]),
                                               src |-> it])
            /\ count' = count + 1
            /\ it' = it + 1
            /\ pc' = IF LimitReached(count', plan.limit) THEN "finish" ELSE "scan_rows"
    /\ UNCHANGED <<args, wb, ws, headers, plan, exitStatus, err, out, input, output>>

\* The cell of line 268.
ColumnValue(row, col_idx) ==
    IF col_idx < Len(row) THEN format_cell(row[col_idx + 1]) ELSE <<>>

\* One pass of the loop of cmd_column (lines 267-272).
ScanColumn ==
    /\ pc = "scan_column"
    /\ IF it > Len(ws.rows)
       THEN /\ pc' = "finish"
            /\ UNCHANGED <<collected, count, it>>
       ELSE /\ collected' = Append(collected, [row |-> plan.start_row + count,
                                               vals |-> <<ColumnValue(ws.rows[it], plan.col_idx)>>,
                                               src |-> it])
            /\ count' = count + 1
            /\ it' = it + 1
            /\ pc' = IF LimitReached(count', args.limit) THEN "finish" ELSE "scan_column"
    /\ UNCHANGED <<args, wb, ws, headers, plan, exitStatus, err, out, input, output>>

\* The end of cmd_rows and cmd_column: total = ws.max_row, wb.close(), then
\* "No data rows found." or the result.  ws.max_row may be absent.
Finish ==
    /\ pc = "finish"
    /\ wb' = Closed(wb)
    /\ \E total \in {NoneI, Some(Len(ws.rows))} :
         out' = IF collected = <<>>
                THEN [kind |-> "no_data"]
                ELSE [kind |-> args.command, sheet |-> ws.title, headers |-> headers,
                      column |-> plan.col_name, column_index |-> plan.col_idx,
                      rows |-> collected, total_rows |-> total, showing |-> Len(collected)]
    /\ Exit(0, NoError)
    /\ UNCHANGED <<args, ws, headers, plan, collected, count, it, input, output>>

Next ==
    \/ ParseArgs
    \/ open_workbook
    \/ cmd_sheets
    \/ ResolveSheet
    \/ cmd_headers
    \/ ReadHeaders
    \/ DetermineRange
    \/ ResolveColumnStep
    \/ ScanRows
    \/ ScanColumn
    \/ Finish

Spec == Init /\ [][Next]_vars

\* ------------------------------------------------- the helpers on their own
StringsUpTo(alphabet, n) == UNION {[1..k -> alphabet] : k \in 0..n}

RangeAlphabet == {"0", "1", "2", "-", "+", "a"}
RangeTokens == {None} \cup StringsUpTo(RangeAlphabet, MaxTokenLen)

InitRange ==
    /\ pc = "apply"
    /\ Idle
    /\ input \in RangeTokens
    /\ output = <<>>

\* range_start, range_end = parse_range(args.range)
ApplyParseRange ==
    /\ pc = "apply"
    /\ output' = parse_range(input)
    /\ pc' = "applied"
    /\ UNCHANGED <<args, wb, ws, headers, plan, collected, count, it, exitStatus, err, out,
                   input>>

SpecRange == InitRange /\ [][ApplyParseRange]_vars

HeaderStrs == {<<>>, <<"a">>, <<"A">>, <<"1">>}
HeaderLists == UNION {[1..k -> HeaderStrs] : k \in 1..MaxHeaders}
ColumnAlphabet == {"a", "A", "0", "1", "2", "-"}
ColumnTokens == StringsUpTo(ColumnAlphabet, MaxColTokenLen)

InitColumn ==
    /\ pc = "apply"
    /\ Idle
    /\ input \in [headers : HeaderLists, token : ColumnTokens]
    /\ output = <<>>

\* "Resolve column" of cmd_column on a header list and a token.
ApplyResolveColumn ==
    /\ pc = "apply"
    /\ output' = ResolveColumn(input.headers, input.token)
    /\ pc' = "applied"
    /\ UNCHANGED <<args, wb, ws, headers, plan, collected, count, it, exitStatus, err, out,
                   input>>

SpecColumn == InitColumn /\ [][ApplyResolveColumn]_vars

NameStrs == {<<"S">>, <<"s">>, <<"T">>, <<"t">>}
\* Workbooks of 1..MaxSheets sheets with distinct names.
NameLists ==
    UNION {{l \in [1..k -> NameStrs] : \A i, j \in 1..k : i # j => l[i] # l[j]} :
             k \in 1..MaxSheets}
NameArgs == {None, <<"x">>} \cup NameStrs

InitSheet ==
    /\ pc = "apply"
    /\ Idle
    /\ input \in [sheetnames : NameLists, name : NameArgs]
    /\ output = <<>>

\* ws = resolve_sheet(wb, args.sheet)
ApplyResolveSheet ==
    /\ pc = "apply"
    /\ output' = resolve_sheet(input.sheetnames, input.name)
    /\ pc' = "applied"
    /\ UNCHANGED <<args, wb, ws, headers, plan, collected, count, it, exitStatus, err, out,
                   input>>

SpecSheet == InitSheet /\ [][ApplyResolveSheet]_vars

\* ------------------------------------------------------------------ claims
Labels(c) == [i \in DOMAIN c |-> c[i].row]
Sources(c) == [i \in DOMAIN c |-> c[i].src]
\* The row numbers lo, lo+1, ..., hi (none when hi < lo).
RowRun(lo, hi) == [i \in 1..Max(0, hi - lo + 1) |-> lo + i - 1]
Done == pc = "exited"

\* C1: an invocation that opened a workbook has called its close() by the
\* time the process exits, on every exit path.
C1_HandleReleasedOnExit == Done => wb.state # "open"

\* C2: every row number the rows command collects is strictly greater than
\* header_row, for every range, offset and limit.
C2_RowsNeverReturnHeader ==
    args.command = "rows" =>
        \A i \in DOMAIN collected :
            collected[i].row > args.header_row /\ collected[i].src > args.header_row

\* The rows command has collected rows for a range that starts at or before
\* the header row.
C2_Witness ==
    /\ Done
    /\ args.command = "rows"
    /\ ~plan.range_start.none
    /\ plan.range_start.v <= args.header_row
    /\ collected # <<>>

\* C3: every row number the column command collects is 1-based and strictly
\* greater than header_row, for every offset and limit.
C3_ColumnNeverReturnsHeader ==
    args.command = "column" =>
        \A i \in DOMAIN collected :
            collected[i].row >= 1 /\ collected[i].row > args.header_row

\* C4: with a two-bound range (s, e) the rows command returns exactly the
\* rows max(s, H+1) .. e that the sheet has, in increasing order, each under
\* its own number, whatever limit and offset are; no row above e is collected.
C4_RangeIsHardBound ==
    (args.command = "rows" /\ ~plan.range_start.none /\ ~plan.range_end.none) =>
        /\ \A i \in DOMAIN collected : collected[i].row <= plan.range_end.v
        /\ (Done /\ exitStatus = 0) =>
             /\ Labels(collected) =
                  RowRun(Max(plan.range_start.v, args.header_row + 1),
                         Min(plan.range_end.v, Len(ws.rows)))
             /\ Sources(collected) = Labels(collected)

\* A range that ends inside the sheet returned more rows than --limit, with
\* a non-zero --offset.
C4_Witness ==
    /\ Done
    /\ args.command = "rows"
    /\ ~plan.range_end.none
    /\ plan.range_end.v < Len(ws.rows)
    /\ Len(collected) > args.limit
    /\ Len(collected) >= 2
    /\ args.offset # 0

\* C5: in offset/limit mode of rows and in column, the number of collected
\* rows never exceeds limit, for every limit including 0.
C5_LimitCapsCount ==
    ((args.command = "rows" /\ args.range = None) \/ args.command = "column") =>
        Len(collected) <= args.limit

\* An integer literal as int() reads one when no "-" is left in it.
IsLiteral(s) == AllDigits(s) \/ (s # <<>> /\ s[1] = "+" /\ AllDigits(Tail(s)))
LiteralVal(s) == IF AllDigits(s) THEN DigitsVal(s) ELSE DigitsVal(Tail(s))
Separators(s) == {i \in DOMAIN s : s[i] = "-"}
RangeOk(r, s, e) == r.err = NoError /\ r.start = Some(s) /\ r.end = Some(e)
RangeInvalid(r) == r.err.kind = "InvalidRange" /\ r.start.none /\ r.end.none

\* C6: parse_range(absent) is (absent, absent); a single literal n >= 1
\* gives (n, n); 's-e' with literals 1 <= s <= e gives (s, e); every other
\* token fails with InvalidRange; a returned pair has 1 <= start <= end.
C6_RangeResolver ==
    pc = "applied" =>
        /\ IF input = None
           THEN output = [err |-> NoError, start |-> NoneI, end |-> NoneI]
           ELSE IF Separators(input) = {}
           THEN IF IsLiteral(input) /\ LiteralVal(input) >= 1
                THEN RangeOk(output, LiteralVal(input), LiteralVal(input))
                ELSE RangeInvalid(output)
           ELSE IF Cardinality(Separators(input)) = 1
           THEN LET k == CHOOSE i \in Separators(input) : TRUE
                    l == SubSeq(input, 1, k - 1)
                    r == SubSeq(input, k + 1, Len(input))
                IN  IF /\ IsLiteral(l)
                       /\ IsLiteral(r)
                       /\ 1 <= LiteralVal(l)
                       /\ LiteralVal(l) <= LiteralVal(r)
                    THEN RangeOk(output, LiteralVal(l), LiteralVal(r))
                    ELSE RangeInvalid(output)
           ELSE RangeInvalid(output)
        /\ (output.err = NoError /\ ~output.start.none) =>
             /\ ~output.end.none
             /\ 1 <= output.start.v
             /\ output.start.v <= output.end.v

\* parse_range returned a pair with start < end.
C6_Witness ==
    /\ pc = "applied"
    /\ output.err = NoError
    /\ ~output.start.none
    /\ output.start.v >= 10
    /\ output.start.v < output.end.v

\* The positions of the headers that equal the token case-insensitively.
NameHits(hs, token) == {i \in DOMAIN hs : Lower(hs[i]) = Lower(token)}
Least(S) == CHOOSE i \in S : \A j \in S : i <= j

\* C7: a case-insensitive header match wins, at the first matching position
\* and with the header's own text, even for a numeric token; only without a
\* match is the token an index, accepted iff in [0, len(headers)-1]; otherwise
\* ColumnNotFound, listing every header.
C7_ColumnPrecedence ==
    pc = "applied" =>
        LET hs == input.headers
            token == input.token
            n == PyInt(token)
        IN  IF NameHits(hs, token) # {}
            THEN /\ output.err = NoError
                 /\ output.col_idx = Least(NameHits(hs, token)) - 1
                 /\ output.col_name = hs[Least(NameHits(hs, token))]
            ELSE IF n.ok /\ 0 <= n.val /\ n.val <= Len(hs) - 1
            THEN /\ output.err = NoError
                 /\ output.col_idx = n.val
                 /\ output.col_name = hs[n.val + 1]
            ELSE /\ output.err.kind = "ColumnNotFound"
                 /\ output.err.names = hs

\* A numeric token that is a valid index resolved by name to another position.
C7_Witness ==
    /\ pc = "applied"
    /\ output.err = NoError
    /\ PyInt(input.token).ok
    /\ IndexInRange(PyInt(input.token).val, Len(input.headers))
    /\ output.col_idx # PyInt(input.token).val

\* The three commands that read a header, after the sheet was resolved.
NoRowAtHeader ==
    IF args.command = "headers" THEN Len(ws.rows) = 0
    ELSE Len(ws.rows) < args.header_row

\* C8: with no row at header_row the headers, rows and column commands fail
\* with EmptySheet and status 1 before any result; with a header row and no
\* row after it, rows and column (valid range, resolvable column) end with
\* the empty "no data rows" result and status 0.
C8_EmptySheetVersusNoData ==
    (Done /\ ws.ok) =>
        /\ (args.command \in {"headers", "rows", "column"} /\ NoRowAtHeader) =>
             /\ err.kind = "EmptySheet"
             /\ exitStatus = 1
             /\ out = NoOutput
        /\ (/\ args.command \in {"rows", "column"}
            /\ Len(ws.rows) = args.header_row
            /\ err.kind \notin {"InvalidRange", "ColumnNotFound"}) =>
             /\ exitStatus = 0
             /\ err = NoError
             /\ out.kind = "no_data"

\* C9: with no name the first sheet is selected; with a name, the first
\* sheet in workbook order whose name equals it case-insensitively; with no
\* match, SheetNotFound listing every sheet name verbatim, in workbook order.
C9_SheetResolver ==
    pc = "applied" =>
        LET names == input.sheetnames
            hits == IF input.name = None THEN {}
                    ELSE {i \in DOMAIN names : Lower(names[i]) = Lower(input.name)}
        IN  IF input.name = None
            THEN output.err = NoError /\ output.idx = 1 /\ output.title = names[1]
            ELSE IF hits # {}
            THEN /\ output.err = NoError
                 /\ output.idx = Least(hits)
                 /\ output.title = names[Least(hits)]
            ELSE /\ output.err.kind = "SheetNotFound"
                 /\ output.err.names = names

\* Two sheets match the name and the one selected is not the first sheet of
\* the workbook.
C9_Witness ==
    /\ pc = "applied"
    /\ input.name # None
    /\ output.err = NoError
    /\ output.idx > 1
    /\ \E i \in DOMAIN input.sheetnames :
         i > output.idx /\ Lower(input.sheetnames[i]) = Lower(input.name)

\* C10: with no range, offset >= 0 and limit >= 1, the rows command returns
\* exactly the rows H+1+offset .. min(H+offset+limit, N), each under its own
\* sheet row number, consecutive and increasing; none when H+1+offset > N.
C10_OffsetLimitWindow ==
    (/\ Done
     /\ exitStatus = 0
     /\ args.command = "rows"
     /\ args.range = None
     /\ args.offset >= 0
     /\ args.limit >= 1) =>
        /\ Labels(collected) =
             RowRun(args.header_row + 1 + args.offset,
                    Min(args.header_row + args.offset + args.limit, Len(ws.rows)))
        /\ Sources(collected) = Labels(collected)

\* A window cut by --limit before the end of the sheet, after skipped rows.
C10_Witness ==
    /\ Done
    /\ args.command = "rows"
    /\ args.range = None
    /\ args.offset >= 1
    /\ Len(collected) = args.limit
    /\ args.limit >= 1
    /\ collected[Len(collected)].row < Len(ws.rows)

====
